---- MODULE Spec2Model ----
(***************************************************************************)
(* Deferred / forward renderer (DeferredSolution.cpp), its camera          *)
(* (Camera.h, Camera.cpp) and mesh rendering (Mesh.cpp).                   *)
(*                                                                         *)
(* Numeric domains                                                         *)
(*   time      : float32 values written as integers in units of 2^-36 s;   *)
(*               every float32 result of the spawn accumulator is rounded  *)
(*               to a 24 bit significand (round to nearest, ties to even). *)
(*               Times between 4096 s and 8192 s, where float32 values are *)
(*               2^-11 s apart, are written as 2^30 + c for c * 2^-11 s.   *)
(*   angles    : whole quarter turns, so that every rotation matrix is an  *)
(*               exact integer matrix.                                     *)
(*   positions : integers.                                                 *)
(*   projection: fixed point, thousandths.                                 *)
(***************************************************************************)
EXTENDS Integers, Sequences, FiniteSets, TLC

(***************************************************************************)
(* Bounds of the model.                                                    *)
(***************************************************************************)
\* Capacity of the PointLights array.  The program sets 25600
\* (DeferredSolution.cpp line 75); the model keeps the array small so that
\* the capacity is reached and exceeded attempts happen.
MaxPointLights == 6
\* Number of UpdateScene calls explored by Spec (keys and mode toggle in use).
MaxFrames == 2
\* Number of UpdateScene calls explored by SpecLights (every frame time).
MaxLightFrames == 3
\* Number of camera method calls explored by SpecCamera.
MaxCalls == 3
\* Largest number of sub-meshes a loaded mesh has.
MaxSubMeshes == 2
\* Number of passes of every technique of the effect file
\* (D3DX11_TECHNIQUE_DESC.Passes).
TechniquePasses == 1
\* Number of UpdateScene calls made by SpecSteady.
SteadyFrames == 5001
\* Number of pixels of the viewport, of the back buffer and of each G-buffer
\* texture (g_ViewportWidth * g_ViewportHeight in the program).
MaxEnumCalls == 4
\* Sub-meshes of the enumerated mesh have up to this many faces.
MaxFaces == 2
NumPixels == 2

(***************************************************************************)
(* Small helpers.                                                          *)
(***************************************************************************)
Abs(x) == IF x < 0 THEN -x ELSE x
Min(a, b) == IF a < b THEN a ELSE b
Max(a, b) == IF a > b THEN a ELSE b

(***************************************************************************)
(* float32 arithmetic of the spawn accumulator.  A value is an integer     *)
(* number of units of 2^-36 s; magnitudes below 2^24 units are exact,      *)
(* larger ones keep 24 significant bits.                                   *)
(***************************************************************************)
Pow2(e) == 2^e

\* Number of low bits a magnitude loses when stored as a float32.
LostBits(m) ==
    IF m < Pow2(24) THEN 0
    ELSE IF m < Pow2(25) THEN 1
    ELSE IF m < Pow2(26) THEN 2
    ELSE IF m < Pow2(27) THEN 3
    ELSE IF m < Pow2(28) THEN 4
    ELSE IF m < Pow2(29) THEN 5
    ELSE 6

\* Round to nearest float32, ties to even.
RoundF32(x) ==
    LET m == Abs(x)
        e == LostBits(m)
        p == Pow2(e)
        q == m \div p
        r == m % p
        up == (2 * r > p) \/ (2 * r = p /\ q % 2 = 1)
        v == (IF up THEN q + 1 ELSE q) * p
    IN IF e = 0 THEN x ELSE IF x < 0 THEN -v ELSE v

(***************************************************************************)
(* Long times.  The float32 values of magnitude between 4096 s and 8192 s  *)
(* are the multiples c * 2^-11 s with 2^23 <= c < 2^24, one cell of 2^25   *)
(* units apart; such a value is written as the integer 2^30 + c (negated   *)
(* when negative), which keeps the order of the values.  A long time is    *)
(* only ever added to a short one.                                         *)
(***************************************************************************)
LongBase == Pow2(30)
Cell == Pow2(25)
IsLong(x) == Abs(x) >= LongBase
Sgn(x) == IF x < 0 THEN -1 ELSE 1
\* The long time of c cells, and the cells of a long time, both signed.
LongTime(c) == Sgn(c) * (LongBase + Abs(c))
CellsOf(x) == Sgn(x) * (Abs(x) - LongBase)

\* The multiple of a cell nearest to c cells plus fine units, ties to even.
NearestCell(c, fine) ==
    LET q == fine \div Cell
        r == fine % Cell
        up == (2 * r > Cell) \/ (2 * r = Cell /\ (c + q) % 2 # 0)
    IN c + q + (IF up THEN 1 ELSE 0)

\* a + b and a - b as float32.
AddF32(a, b) ==
    IF IsLong(a) THEN LongTime(NearestCell(CellsOf(a), b))
    ELSE IF IsLong(b) THEN LongTime(NearestCell(CellsOf(b), a))
    ELSE RoundF32(a + b)
SubF32(a, b) == AddF32(a, -b)

\* const float LightSpawnFreq = 5000.0f
LightSpawnFreq == 5000

\* 1.0f / LightSpawnFreq as a float32, in units of 2^-36 s (13743895).
SpawnInterval ==
    RoundF32(((Pow2(30) \div LightSpawnFreq) * 64)
             + (((Pow2(30) % LightSpawnFreq) * 64) \div LightSpawnFreq))

(***************************************************************************)
(* Vectors and 4x4 matrices (row vectors, D3DX conventions: rows 1..3 are  *)
(* the axes, row 4 is the translation).                                    *)
(***************************************************************************)
Idx == 1..4

Identity ==
    << <<1, 0, 0, 0>>, <<0, 1, 0, 0>>, <<0, 0, 1, 0>>, <<0, 0, 0, 1>> >>

MatMul(A, B) ==
    LET E(i, j) == A[i][1] * B[1][j] + A[i][2] * B[2][j] + A[i][3] * B[3][j]
                   + A[i][4] * B[4][j]
        Row(i) == <<E(i, 1), E(i, 2), E(i, 3), E(i, 4)>>
    IN <<Row(1), Row(2), Row(3), Row(4)>>

\* sin and cos of a whole number of quarter turns.
Sin(a) == LET k == a % 4 IN IF k = 1 THEN 1 ELSE IF k = 3 THEN -1 ELSE 0
Cos(a) == LET k == a % 4 IN IF k = 0 THEN 1 ELSE IF k = 2 THEN -1 ELSE 0

MatrixRotationX(a) ==
    << <<1, 0, 0, 0>>, <<0, Cos(a), Sin(a), 0>>, <<0, -Sin(a), Cos(a), 0>>, <<0, 0, 0, 1>> >>

MatrixRotationY(a) ==
    << <<Cos(a), 0, -Sin(a), 0>>, <<0, 1, 0, 0>>, <<Sin(a), 0, Cos(a), 0>>, <<0, 0, 0, 1>> >>

MatrixRotationZ(a) ==
    << <<Cos(a), Sin(a), 0, 0>>, <<-Sin(a), Cos(a), 0, 0>>, <<0, 0, 1, 0>>, <<0, 0, 0, 1>> >>

MatrixTranslation(p) ==
    << <<1, 0, 0, 0>>, <<0, 1, 0, 0>>, <<0, 0, 1, 0>>, <<p[1], p[2], p[3], 1>> >>

\* The three indices other than i.
Others(i) ==
    IF i = 1 THEN <<2, 3, 4>>
    ELSE IF i = 2 THEN <<1, 3, 4>>
    ELSE IF i = 3 THEN <<1, 2, 4>>
    ELSE <<1, 2, 3>>

Det3(a, b, c, d, e, f, g, h, k) ==
    a * (e * k - f * h) - b * (d * k - f * g) + c * (d * h - e * g)

Minor(M, i, j) ==
    LET r == Others(i)
        c == Others(j)
    IN Det3(M[r[1]][c[1]], M[r[1]][c[2]], M[r[1]][c[3]],
            M[r[2]][c[1]], M[r[2]][c[2]], M[r[2]][c[3]],
            M[r[3]][c[1]], M[r[3]][c[2]], M[r[3]][c[3]])

Cofactor(M, i, j) == IF (i + j) % 2 = 0 THEN Minor(M, i, j) ELSE -Minor(M, i, j)

Determinant(M) ==
    M[1][1] * Cofactor(M, 1, 1) + M[1][2] * Cofactor(M, 1, 2)
    + M[1][3] * Cofactor(M, 1, 3) + M[1][4] * Cofactor(M, 1, 4)

\* D3DXMatrixInverse: adjugate over determinant; a singular matrix leaves
\* the output as it was.
MatrixInverse(old, M) ==
    LET d == Determinant(M)
        s == IF d < 0 THEN -1 ELSE 1
        E(i, j) == (s * Cofactor(M, j, i)) \div Abs(d)
        Row(i) == <<E(i, 1), E(i, 2), E(i, 3), E(i, 4)>>
    IN IF d = 0 THEN old ELSE <<Row(1), Row(2), Row(3), Row(4)>>


(***************************************************************************)
(* D3DXMatrixPerspectiveFovLH in thousandths.  The field of view is given  *)
(* in units of pi/4; aspect in thousandths.                                *)
(***************************************************************************)
\* 1000 * tan(fov / 2)
TanHalf(fov) == IF fov = 1 THEN 414 ELSE IF fov = 2 THEN 1000 ELSE 2414

\* 1000 * cot(fov / 2)
CotHalf(fov) == IF fov = 1 THEN 2414 ELSE IF fov = 2 THEN 1000 ELSE 414

MatrixPerspectiveFovLH(fov, aspect, zn, zf) ==
    LET yScale == CotHalf(fov)
        xScale == (yScale * 1000) \div aspect
    IN << <<xScale, 0, 0, 0>>,
          <<0, yScale, 0, 0>>,
          <<0, 0, (zf * 1000) \div (zf - zn), 1000>>,
          <<0, 0, -((zn * zf * 1000) \div (zf - zn)), 0>> >>

(***************************************************************************)
(* CCamera                                                                 *)
(***************************************************************************)
\* m_Aspect = 1.333f, in thousandths.
HardCodedAspect == 1333

\* One quarter turn and one position unit per this much frame time:
\* RotSpeed * frameTime and MoveSpeed * frameTime are quantised to whole steps.
StepTime == Pow2(23)

RotAmount(frameTime) == frameTime \div StepTime
MoveAmount(frameTime) == frameTime \div StepTime

\* A plausible slip: the x and y rotations multiplied the other way round.
UpdateMatricesWrongOrder(cam) ==
    LET world == MatMul(MatMul(MatMul(MatrixRotationZ(cam.m_Rotation[3]),
                                      MatrixRotationY(cam.m_Rotation[2])),
                               MatrixRotationX(cam.m_Rotation[1])),
                        MatrixTranslation(cam.m_Position))
        view == MatrixInverse(cam.m_ViewMatrix, world)
        proj == MatrixPerspectiveFovLH(cam.m_FOV, cam.m_Aspect, cam.m_NearClip, cam.m_FarClip)
    IN [cam EXCEPT !.m_WorldMatrix = world, !.m_ViewMatrix = view,
                   !.m_ProjMatrix = proj, !.m_ViewProjMatrix = MatMul(view, proj)]

\* The new world matrix multiplied onto the cached one instead of replacing it.
UpdateMatricesPostMultiply(cam) ==
    LET world == MatMul(cam.m_WorldMatrix,
                        MatMul(MatMul(MatMul(MatrixRotationZ(cam.m_Rotation[3]),
                                             MatrixRotationX(cam.m_Rotation[1])),
                                      MatrixRotationY(cam.m_Rotation[2])),
                               MatrixTranslation(cam.m_Position)))
        view == MatrixInverse(cam.m_ViewMatrix, world)
        proj == MatrixPerspectiveFovLH(cam.m_FOV, cam.m_Aspect, cam.m_NearClip, cam.m_FarClip)
    IN [cam EXCEPT !.m_WorldMatrix = world, !.m_ViewMatrix = view,
                   !.m_ProjMatrix = proj, !.m_ViewProjMatrix = MatMul(view, proj)]

\* CCamera::UpdateMatrices
UpdateMatrices(cam) ==
    LET world == MatMul(MatMul(MatMul(MatrixRotationZ(cam.m_Rotation[3]),
                                      MatrixRotationX(cam.m_Rotation[1])),
                               MatrixRotationY(cam.m_Rotation[2])),
                        MatrixTranslation(cam.m_Position))
        view == MatrixInverse(cam.m_ViewMatrix, world)
        proj == MatrixPerspectiveFovLH(cam.m_FOV, cam.m_Aspect, cam.m_NearClip, cam.m_FarClip)
    IN [cam EXCEPT !.m_WorldMatrix = world, !.m_ViewMatrix = view,
                   !.m_ProjMatrix = proj, !.m_ViewProjMatrix = MatMul(view, proj)]

\* CCamera::CCamera
CCamera(position, rotation, fov, nearClip, farClip) ==
    UpdateMatrices([m_Position |-> position, m_Rotation |-> rotation,
                    m_Aspect |-> HardCodedAspect,
                    m_FOV |-> fov, m_NearClip |-> nearClip, m_FarClip |-> farClip,
                    m_WorldMatrix |-> Identity, m_ViewMatrix |-> Identity,
                    m_ProjMatrix |-> Identity, m_ViewProjMatrix |-> Identity])

\* The defaults of the constructor: fov = pi/4, nearClip = 1, farClip = 50000.
DefaultCamera == CCamera(<<0, 0, 0>>, <<0, 0, 0>>, 1, 1, 50000)

SetPosition(cam, position) == [cam EXCEPT !.m_Position = position]
SetRotation(cam, rotation) == [cam EXCEPT !.m_Rotation = rotation]
SetFOV(cam, fov) == [cam EXCEPT !.m_FOV = fov]
SetNearClip(cam, nearClip) == [cam EXCEPT !.m_NearClip = nearClip]
SetFarClip(cam, farClip) == [cam EXCEPT !.m_FarClip = farClip]

\* v + s * row r of the cached world matrix
AddRow(v, M, r, s) == <<v[1] + M[r][1] * s, v[2] + M[r][2] * s, v[3] + M[r][3] * s>>

\* The key codes UpdateScene passes to Control.
ControlKeys ==
    [turnUp |-> "Key_Up", turnDown |-> "Key_Down", turnLeft |-> "Key_Left",
     turnRight |-> "Key_Right", moveForward |-> "Key_W", moveBackward |-> "Key_S",
     moveLeft |-> "Key_A", moveRight |-> "Key_D"]

\* CCamera::Control; held is the set of keys KeyHeld reports.
Control(cam, frameTime, keys, held) ==
    LET rot == RotAmount(frameTime)
        mov == MoveAmount(frameTime)
        Held(k) == IF k \in held THEN 1 ELSE 0
        rx == cam.m_Rotation[1] + rot * Held(keys.turnDown) - rot * Held(keys.turnUp)
        ry == cam.m_Rotation[2] + rot * Held(keys.turnRight) - rot * Held(keys.turnLeft)
        p1 == AddRow(cam.m_Position, cam.m_WorldMatrix, 1,
                     mov * Held(keys.moveRight) - mov * Held(keys.moveLeft))
        p2 == AddRow(p1, cam.m_WorldMatrix, 3,
                     mov * Held(keys.moveForward) - mov * Held(keys.moveBackward))
    IN [cam EXCEPT !.m_Rotation = <<rx, ry, cam.m_Rotation[3]>>, !.m_Position = p2]

\* The two camera calls of UpdateScene the other way round.
UpdateCameraMatricesFirst(cam, frameTime, held) ==
    Control(UpdateMatrices(cam), frameTime, ControlKeys, held)

\* The two camera calls of UpdateScene: Control, then UpdateMatrices.
UpdateCamera(cam, frameTime, held) ==
    UpdateMatrices(Control(cam, frameTime, ControlKeys, held))

(***************************************************************************)
(* Point lights                                                            *)
(***************************************************************************)
\* SPointLight; colours in tenths.
SeedLight ==
    [position |-> <<-18000, 4000, 6000>>, radius |-> 25000, colour |-> <<4, 4, 7, 0>>]

\* The array has static storage: the entries not initialised are zero.
ZeroLight == [position |-> <<0, 0, 0>>, radius |-> 0, colour |-> <<0, 0, 0, 0>>]

\* What a buffer entry holds after Map( D3D11_MAP_WRITE_DISCARD ) until written.
DiscardedLight == [position |-> <<0, 0, 0>>, radius |-> -1, colour |-> <<0, 0, 0, 0>>]

LightIdx == 0..(MaxPointLights - 1)

InitialPointLights == [i \in LightIdx |-> IF i = 0 THEN SeedLight ELSE ZeroLight]

\* Lights the Random( ) calls of one spawn can produce: position in the box
\* (-600..600, 5..40, -600..600), radius in 20..40, colour in 0.4..1.0.
RandomLights ==
    { [position |-> <<3, 5, 4>>, radius |-> 20, colour |-> <<4, 10, 7, 0>>],
      [position |-> <<-6, 6, 2>>, radius |-> 40, colour |-> <<10, 4, 4, 0>>] }

\* One pass of the body of the spawn loop with the capacity test left out.
SpawnStepUnguarded(st, rnd) ==
    [emit |-> AddF32(st.emit, SpawnInterval),
     n |-> st.n + 1,
     lights |-> IF st.n \in LightIdx THEN [st.lights EXCEPT ![st.n] = rnd] ELSE st.lights,
     topUps |-> st.topUps + 1]

\* One pass of the body of the spawn loop that starts the array over when full.
SpawnStepRecycle(st, rnd) ==
    [emit |-> AddF32(st.emit, SpawnInterval),
     n |-> IF st.n < MaxPointLights THEN st.n + 1 ELSE 1,
     lights |-> IF st.n < MaxPointLights THEN [st.lights EXCEPT ![st.n] = rnd] ELSE st.lights,
     topUps |-> st.topUps + 1]

\* One pass of the body of the spawn loop.
SpawnStep(st, rnd) ==
    [emit |-> AddF32(st.emit, SpawnInterval),
     n |-> IF st.n < MaxPointLights THEN st.n + 1 ELSE st.n,
     lights |-> IF st.n < MaxPointLights THEN [st.lights EXCEPT ![st.n] = rnd] ELSE st.lights,
     topUps |-> st.topUps + 1]

\* The spawn loop written with if instead of while: one pass at most.
SpawnLoopOnce(st, rnd) == IF st.emit < 0 THEN SpawnStep(st, rnd) ELSE st

RECURSIVE SpawnLoopBelowCapacity(_, _)
\* The spawn loop with the capacity test in the loop condition.
SpawnLoopBelowCapacity(st, rnd) ==
    IF st.emit < 0 /\ st.n < MaxPointLights
    THEN SpawnLoopBelowCapacity(SpawnStep(st, rnd), rnd) ELSE st

\* A pass of the loop body that leaves the accumulator negative and changes
\* neither it nor the lights: every later pass does the same and the loop
\* never ends.
NeverEnds(st, rnd) ==
    st.emit < 0 /\ SpawnStep(st, rnd) = [st EXCEPT !.topUps = @ + 1]

RECURSIVE SpawnLoop(_, _)
\* while (emit < 0) { ... }: the state the loop ends in, or the one it stays
\* in for ever.
SpawnLoop(st, rnd) ==
    IF st.emit < 0 /\ ~NeverEnds(st, rnd)
    THEN SpawnLoop(SpawnStep(st, rnd), rnd) ELSE st

RECURSIVE IsqrtIn(_, _, _)
\* The largest f in lo..hi with f * f <= n, by bisection.
IsqrtIn(n, lo, hi) ==
    IF lo = hi THEN lo
    ELSE LET mid == (lo + hi + 1) \div 2
         IN IF mid * mid <= n THEN IsqrtIn(n, mid, hi) ELSE IsqrtIn(n, lo, mid - 1)

\* Integer part of the square root (of a number below 2^31).
Isqrt(n) == IsqrtIn(n, 0, 46340)

\* Sign of fmodf( dist, 1.0f ) - 0.5f for dist = sqrt( d2 ).
SpeedSign(d2) == LET f == Isqrt(d2) IN IF d2 - f * f <= f THEN -1 ELSE 1

\* rotateSpeed * frameTime in quarter turns: the direction of rotateSpeed, one
\* quarter turn for any frame time above zero.
OrbitAngle(position, frameTime) ==
    LET d2 == position[1] * position[1] + position[2] * position[2]
              + position[3] * position[3]
    IN IF frameTime = 0 THEN 0 ELSE SpeedSign(d2)

\* CMatrix4x4::TransformVector: the vector times the upper 3x3 of the matrix.
TransformVector(M, v) ==
    LET E(j) == v[1] * M[1][j] + v[2] * M[2][j] + v[3] * M[3][j]
    IN <<E(1), E(2), E(3)>>

OrbitLight(light, frameTime) ==
    [light EXCEPT !.position =
        TransformVector(MatrixRotationY(OrbitAngle(light.position, frameTime)),
                        light.position)]

\* The orbital loop started at index 0.
OrbitLightsFromZero(lights, n, frameTime) ==
    [i \in LightIdx |-> IF i < n THEN OrbitLight(lights[i], frameTime) ELSE lights[i]]

\* for (int i = 1; i < NumPointLights; i++) ...
OrbitLights(lights, n, frameTime) ==
    [i \in LightIdx |-> IF 1 <= i /\ i < n THEN OrbitLight(lights[i], frameTime)
                        ELSE lights[i]]

\* Map( WRITE_DISCARD ), CopyMemory of n records, Unmap.
UploadLights(lights, n) ==
    [i \in LightIdx |-> IF i < n THEN lights[i] ELSE DiscardedLight]

(***************************************************************************)
(* Render backend: the device context and the effect variables.            *)
(***************************************************************************)
ZeroMatrix ==
    << <<0, 0, 0, 0>>, <<0, 0, 0, 0>>, <<0, 0, 0, 0>>, <<0, 0, 0, 0>> >>

GBufferIdx == {0, 1, 2}

\* The techniques whose shaders sample the G-buffer textures.
GBufferReaders == {"AmbientLight", "PointLight"}

Cmd(op, name, n) == [op |-> op, name |-> name, n |-> n]

Pixels == 1..NumPixels

\* The G-buffer pixels a draw with a resolve technique samples.  The ambient
\* pass is a full-screen quad; the quads of the point lights are taken to
\* cover the viewport when there is a light to draw.
SampledPixels(technique, n) ==
    IF technique = "AmbientLight" THEN Pixels
    ELSE IF technique = "PointLight" /\ n > 0 THEN Pixels
    ELSE {}

\* What one backend call does to the effect variables, the device context and
\* the G-buffer textures; the call is logged with the bindings in force once
\* it has been made.  r.covered are the pixels the level geometry rasterises
\* to in this frame and r.stamp is the number of the frame; a G-buffer pixel
\* holds the number of the frame that wrote it, 0 for the contents the
\* textures were created with.
Exec(r, c) ==
    LET gvar == r.fx.GBufferShaderVar
        fx2 == IF c.op = "SetResource"
               THEN [r.fx EXCEPT !.GBufferShaderVar =
                        IF c.name = "Bind" THEN gvar \cup {c.n} ELSE gvar \ {c.n}]
               ELSE r.fx
        dev2 == IF c.op = "OMSetRenderTargets"
                THEN [r.device EXCEPT !.targets = c.name]
                ELSE IF c.op = "Apply"
                THEN [r.device EXCEPT !.technique = c.name,
                                      !.srv = IF c.name \in GBufferReaders
                                              THEN gvar ELSE @]
                ELSE r.device
        writes == c.op = "DrawIndexed" /\ dev2.targets = "GBuffer"
        gbuffer2 == IF writes
                    THEN [p \in Pixels |-> IF p \in r.covered THEN r.stamp
                                           ELSE r.gbuffer[p]]
                    ELSE r.gbuffer
        samples == IF c.op = "Draw" /\ dev2.technique \in GBufferReaders
                      /\ dev2.srv # {}
                   THEN {[technique |-> dev2.technique, pixel |-> p,
                          stamp |-> r.gbuffer[p]] :
                            p \in SampledPixels(dev2.technique, c.n)}
                   ELSE {}
        entry == [op |-> c.op, name |-> c.name, n |-> c.n,
                  technique |-> dev2.technique, targets |-> dev2.targets,
                  gvar |-> fx2.GBufferShaderVar, srv |-> dev2.srv]
    IN [fx |-> fx2, device |-> dev2, log |-> Append(r.log, entry),
        gbuffer |-> gbuffer2, reads |-> r.reads \cup samples,
        covered |-> r.covered, stamp |-> r.stamp]

RECURSIVE Run(_, _)
\* The calls are made one after the other, each on the state the previous one left.
Run(r, cmds) ==
    IF cmds = <<>> THEN r
    ELSE LET r2 == Exec(r, Head(cmds))
             rest == Tail(cmds)
         IN IF Len(r2.log) + Len(rest) = Len(r.log) + Len(cmds)
            THEN Run(r2, rest) ELSE r2

(***************************************************************************)
(* CMesh::Render                                                           *)
(***************************************************************************)
RECURSIVE PassCmds(_, _, _, _)
\* for( UINT p = 0; p < techDesc.Passes; ++p ) { Apply; DrawIndexed }
PassCmds(name, technique, subMesh, p) ==
    IF p >= TechniquePasses THEN <<>>
    ELSE <<Cmd("Apply", technique, p), Cmd("DrawIndexed", name, subMesh)>>
         \o PassCmds(name, technique, subMesh, p + 1)

RECURSIVE SubMeshCmds(_, _, _, _)
\* for (subMesh = 0; subMesh < m_NumSubMeshes; ++subMesh): the passes, then the
\* DrawIndexed that follows the pass loop.
SubMeshCmds(mesh, name, technique, subMesh) ==
    IF subMesh >= mesh.m_NumSubMeshes THEN <<>>
    ELSE PassCmds(name, technique, subMesh, 0)
         \o <<Cmd("DrawIndexed", name, subMesh)>>
         \o SubMeshCmds(mesh, name, technique, subMesh + 1)

CMeshRender(mesh, name, technique) ==
    IF ~mesh.m_HasGeometry THEN <<>> ELSE SubMeshCmds(mesh, name, technique, 0)

\* CMesh::CMesh
NewMesh == [m_HasGeometry |-> FALSE, m_NumSubMeshes |-> 0]

\* CMesh::Load succeeding on a file of numSubMeshes sub-meshes.
LoadedMesh(numSubMeshes) == [m_HasGeometry |-> TRUE, m_NumSubMeshes |-> numSubMeshes]

(***************************************************************************)
(* CMesh geometry enumeration.  A mesh here is its sub-mesh table (the     *)
(* face and vertex count of each sub-mesh, m_SubMeshes[k + 1] standing for *)
(* sub-mesh k) and the four enumeration members.  A triangle or vertex is  *)
(* named by its sub-mesh and its index within it.                          *)
(***************************************************************************)
MeshOf(subMeshes) ==
    [m_NumSubMeshes |-> Len(subMeshes), m_SubMeshes |-> subMeshes,
     m_EnumTriMesh |-> 0, m_EnumTri |-> 0, m_EnumVertMesh |-> 0, m_EnumVert |-> 0]

RECURSIVE SumOver(_, _, _)
SumOver(mesh, field, subMesh) ==
    IF subMesh >= mesh.m_NumSubMeshes THEN 0
    ELSE mesh.m_SubMeshes[subMesh + 1][field] + SumOver(mesh, field, subMesh + 1)

GetNumTriangles(mesh) == SumOver(mesh, "numFaces", 0)
GetNumVertices(mesh) == SumOver(mesh, "numVertices", 0)

BeginEnumTriangles(mesh) == [mesh EXCEPT !.m_EnumTriMesh = 0, !.m_EnumTri = 0]
BeginEnumVertices(mesh) == [mesh EXCEPT !.m_EnumVertMesh = 0, !.m_EnumVert = 0]

\* One step of an enumeration over the counts in field, with the members
\* enumMesh and enum: the mesh after the call, what the call returns and the
\* element it hands out.  Neither GetTriangle nor GetVertex moves enum on
\* after handing out an element.
EnumStep(mesh, field, enumMesh, enum) ==
    IF mesh[enumMesh] >= mesh.m_NumSubMeshes
    THEN [mesh |-> mesh, result |-> FALSE, element |-> <<>>]
    ELSE IF mesh[enum] >= mesh.m_SubMeshes[mesh[enumMesh] + 1][field]
    THEN LET next == [mesh EXCEPT ![enumMesh] = @ + 1]
         IN IF next[enumMesh] >= mesh.m_NumSubMeshes
            THEN [mesh |-> next, result |-> FALSE, element |-> <<>>]
            ELSE [mesh |-> [next EXCEPT ![enum] = 0], result |-> TRUE,
                  element |-> <<next[enumMesh], 0>>]
    ELSE [mesh |-> mesh, result |-> TRUE, element |-> <<mesh[enumMesh], mesh[enum]>>]

GetTriangle(mesh) == EnumStep(mesh, "numFaces", "m_EnumTriMesh", "m_EnumTri")
GetVertex(mesh) == EnumStep(mesh, "numVertices", "m_EnumVertMesh", "m_EnumVert")

(***************************************************************************)
(* Camera accessors.  stereo is "Monoscopic", "StereoscopicLeft" or        *)
(* "StereoscopicRight"; interocular is an even number of position units,   *)
(* so that interocular * 0.5 is a whole number.                            *)
(***************************************************************************)
\* Division rounding towards zero.
DivT(x, y) == IF x < 0 THEN -((-x) \div y) ELSE x \div y

\* interocular * (stereo == StereoscopicLeft ? -0.5f : 0.5f)
StereoOffset(stereo, interocular) ==
    IF stereo = "StereoscopicLeft" THEN -DivT(interocular, 2) ELSE DivT(interocular, 2)

\* The matrix with its translation row moved along its row 1 by offset.
OffsetWorld(M, offset) ==
    <<M[1], M[2], M[3],
      <<M[4][1] + M[1][1] * offset, M[4][2] + M[1][2] * offset,
        M[4][3] + M[1][3] * offset, M[4][4]>> >>

\* The offset taken along the facing direction (row 3) of the world matrix.
GetPositionAlongZ(cam, stereo, interocular) ==
    IF stereo = "Monoscopic" THEN cam.m_Position
    ELSE AddRow(cam.m_Position, cam.m_WorldMatrix, 3, StereoOffset(stereo, interocular))

\* CCamera::GetPosition
GetPosition(cam, stereo, interocular) ==
    IF stereo = "Monoscopic" THEN cam.m_Position
    ELSE AddRow(cam.m_Position, cam.m_WorldMatrix, 1, StereoOffset(stereo, interocular))

\* The offset added to the x axis row instead of the translation row.
GetWorldMatrixOffsetsAxis(cam, stereo, interocular) ==
    IF stereo = "Monoscopic" THEN cam.m_WorldMatrix
    ELSE LET M == cam.m_WorldMatrix
             offset == StereoOffset(stereo, interocular)
         IN << <<M[1][1] + M[1][1] * offset, M[1][2] + M[1][2] * offset,
                 M[1][3] + M[1][3] * offset, M[1][4]>>, M[2], M[3], M[4] >>

\* CCamera::GetWorldMatrix
GetWorldMatrix(cam, stereo, interocular) ==
    IF stereo = "Monoscopic" THEN cam.m_WorldMatrix
    ELSE OffsetWorld(cam.m_WorldMatrix, StereoOffset(stereo, interocular))

\* The cached view matrix returned for the stereo modes too.
GetViewMatrixCached(cam, stereo, interocular) == cam.m_ViewMatrix

\* CCamera::GetViewMatrix
GetViewMatrix(cam, stereo, interocular) ==
    IF stereo = "Monoscopic" THEN cam.m_ViewMatrix
    ELSE MatrixInverse(ZeroMatrix,
                       OffsetWorld(cam.m_WorldMatrix, StereoOffset(stereo, interocular)))

\* The shear written to entry _13 instead of _31.
GetProjectionMatrixWrongEntry(cam, stereo, interocular, screenDistance) ==
    IF stereo = "Monoscopic" THEN cam.m_ProjMatrix
    ELSE LET offset == StereoOffset(stereo, interocular)
             shear == DivT(DivT(offset * 1000, screenDistance) * 1000,
                           (cam.m_Aspect * TanHalf(cam.m_FOV)) \div 1000)
             P == cam.m_ProjMatrix
         IN << <<P[1][1], P[1][2], shear, P[1][4]>>, P[2], P[3], P[4] >>

\* CCamera::GetProjectionMatrix
\* _31 = (offset / screenDistance) / (m_Aspect * tanf(m_FOV/2)), in thousandths.
GetProjectionMatrix(cam, stereo, interocular, screenDistance) ==
    IF stereo = "Monoscopic" THEN cam.m_ProjMatrix
    ELSE LET offset == StereoOffset(stereo, interocular)
             shear == DivT(DivT(offset * 1000, screenDistance) * 1000,
                           (cam.m_Aspect * TanHalf(cam.m_FOV)) \div 1000)
             P == cam.m_ProjMatrix
         IN <<P[1], P[2], <<shear, P[3][2], P[3][3], P[3][4]>>, P[4]>>

\* The cached combined matrix returned for the stereo modes too.
GetViewProjectionMatrixCached(cam, stereo, interocular, screenDistance) ==
    cam.m_ViewProjMatrix

\* The product taken the other way round, projection first.
GetViewProjectionMatrixProjFirst(cam, stereo, interocular, screenDistance) ==
    IF stereo = "Monoscopic" THEN cam.m_ViewProjMatrix
    ELSE MatMul(GetProjectionMatrix(cam, stereo, interocular, screenDistance),
                GetViewMatrix(cam, stereo, interocular))

\* CCamera::GetViewProjectionMatrix
\* The product of a matrix of whole numbers and one in thousandths.
GetViewProjectionMatrix(cam, stereo, interocular, screenDistance) ==
    IF stereo = "Monoscopic" THEN cam.m_ViewProjMatrix
    ELSE MatMul(GetViewMatrix(cam, stereo, interocular),
                GetProjectionMatrix(cam, stereo, interocular, screenDistance))

\* enum EStereoscopic
EStereoscopic == {"Monoscopic", "StereoscopicLeft", "StereoscopicRight"}

\* The world matrix offset in place, in the member instead of a local copy.
AfterAccessorsInPlace(cam, interocular, screenDistance) ==
    [cam EXCEPT !.m_WorldMatrix =
        OffsetWorld(cam.m_WorldMatrix, StereoOffset("StereoscopicRight", interocular))]

\* The camera after its accessors have been called: they work on local copies
\* (D3DXVECTOR3 position = m_Position; D3DXMATRIXA16 worldMatrix =
\* m_WorldMatrix; ...) and assign no member.
AfterAccessors(cam, interocular, screenDistance) == cam

\* No accessor has been called yet.
NoResult == [interocular |-> 0, screenDistance |-> 0]

(***************************************************************************)
(* RenderScene: the backend calls of one frame.                            *)
(***************************************************************************)
BindGBufferInputs ==
    <<Cmd("SetResource", "Bind", 0), Cmd("SetResource", "Bind", 1),
      Cmd("SetResource", "Bind", 2)>>

UnbindGBufferInputs ==
    <<Cmd("SetResource", "Unbind", 0), Cmd("SetResource", "Unbind", 1),
      Cmd("SetResource", "Unbind", 2)>>

\* The forward branch drawing into the G-buffer targets.
ForwardCommandsToGBuffer(level, n) ==
    <<Cmd("OMSetRenderTargets", "GBuffer", 3)>>
    \o CMeshRender(level, "Level", "PixelLitTex")

\* if (!Deferred) { ... }
ForwardCommands(level, n) ==
    <<Cmd("OMSetRenderTargets", "BackBuffer", 1)>>
    \o CMeshRender(level, "Level", "PixelLitTex")

\* The deferred branch with the light accumulation issued before the ambient pass.
DeferredCommandsLightsFirst(level, n) ==
    <<Cmd("OMSetRenderTargets", "GBuffer", 3)>>
    \o CMeshRender(level, "Level", "GBuffer")
    \o <<Cmd("OMSetRenderTargets", "BackBuffer", 1)>>
    \o BindGBufferInputs
    \o <<Cmd("Apply", "PointLight", 0), Cmd("Draw", "", n)>>
    \o <<Cmd("Apply", "AmbientLight", 0), Cmd("Draw", "", 4)>>
    \o UnbindGBufferInputs
    \o <<Cmd("Apply", "PointLight", 0)>>

\* The deferred branch without the final unbinding of the G-buffer textures.
DeferredCommandsNoUnbind(level, n) ==
    <<Cmd("OMSetRenderTargets", "GBuffer", 3)>>
    \o CMeshRender(level, "Level", "GBuffer")
    \o <<Cmd("OMSetRenderTargets", "BackBuffer", 1)>>
    \o BindGBufferInputs
    \o <<Cmd("Apply", "AmbientLight", 0), Cmd("Draw", "", 4)>>
    \o <<Cmd("Apply", "PointLight", 0), Cmd("Draw", "", n)>>

\* else { ... }: the deferred branch.
DeferredCommands(level, n) ==
    <<Cmd("OMSetRenderTargets", "GBuffer", 3)>>
    \o CMeshRender(level, "Level", "GBuffer")
    \o <<Cmd("OMSetRenderTargets", "BackBuffer", 1)>>
    \o BindGBufferInputs
    \o <<Cmd("Apply", "AmbientLight", 0), Cmd("Draw", "", 4)>>
    \o <<Cmd("Apply", "PointLight", 0), Cmd("Draw", "", n)>>
    \o UnbindGBufferInputs
    \o <<Cmd("Apply", "PointLight", 0)>>

\* The frame with the flares drawn before the skybox.
RenderCommandsFlaresEarly(deferred, level, skybox, n) ==
    <<Cmd("ClearDepthStencilView", "DepthStencilView", 0)>>
    \o (IF deferred THEN DeferredCommands(level, n) ELSE ForwardCommands(level, n))
    \o <<Cmd("Apply", "LightParticles", 0), Cmd("Draw", "", n)>>
    \o CMeshRender(skybox, "Skybox", "PixelLitTex")
    \o <<Cmd("Present", "SwapChain", 0)>>

\* The backend calls of RenderScene, in the order the function makes them.
RenderCommands(deferred, level, skybox, n) ==
    <<Cmd("ClearDepthStencilView", "DepthStencilView", 0)>>
    \o (IF deferred THEN DeferredCommands(level, n) ELSE ForwardCommands(level, n))
    \o CMeshRender(skybox, "Skybox", "PixelLitTex")
    \o <<Cmd("Apply", "LightParticles", 0), Cmd("Draw", "", n)>>
    \o <<Cmd("Present", "SwapChain", 0)>>

\* The camera values RenderScene passes to the shaders.
PushCamera(f, cam) ==
    [f EXCEPT !.ViewMatrixVar = GetViewMatrix(cam, "Monoscopic", 0),
              !.InvViewMatrixVar = GetWorldMatrix(cam, "Monoscopic", 0),
              !.ProjMatrixVar = GetProjectionMatrix(cam, "Monoscopic", 0, 1),
              !.ViewProjMatrixVar = GetViewProjectionMatrix(cam, "Monoscopic", 0, 1),
              !.CameraPosVar = GetPosition(cam, "Monoscopic", 0),
              !.CameraNearClipVar = cam.m_NearClip]

\* Forward rendering passes the light list to the shaders.
PushLights(f, deferred, lights, n) ==
    IF deferred THEN f
    ELSE [f EXCEPT !.NumPointLightsVar = n,
                   !.PointLightsVar = [i \in LightIdx |-> IF i < n THEN lights[i] ELSE @[i]]]

(***************************************************************************)
(* State                                                                   *)
(***************************************************************************)
VARIABLES
    pc,                 \* the next call of wWinMain
    MainCamera,         \* the CCamera object
    Level, Skybox,      \* the two meshes
    Deferred,           \* forward or deferred rendering
    NumPointLights,     \* live light count
    PointLights,        \* the light array
    emit,               \* the static spawn accumulator of UpdateScene
    LightVertexBuffer,  \* the copy of the lights in GPU memory
    fx,                 \* the effect variables
    device,             \* render targets, technique and shader inputs in force
    frameLog,           \* backend calls of the latest RenderScene
    frameMode,          \* the mode the latest RenderScene ran in
    frames,             \* number of UpdateScene calls made
    elapsed,            \* sum of the frame times passed to UpdateScene
    lastUpdate,         \* what the latest UpdateScene did
    calls,              \* number of camera methods called directly
    lastCall,           \* the camera method called last
    GBuffer,            \* for each pixel the frame that wrote the G-buffer there
    frameReads,         \* G-buffer samples taken by the latest RenderScene
    prevMode,           \* the mode of the RenderScene before the latest
    prevCall,           \* the camera method called before the last
    got,                \* what the accessors returned when last called
    Mesh,               \* a mesh whose geometry is enumerated
    enumerated,         \* what the enumeration calls on Mesh returned
    resources           \* the objects created and not yet released

vars ==
    <<pc, MainCamera, Level, Skybox, Deferred, NumPointLights, PointLights, emit,
      LightVertexBuffer, fx, device, frameLog, frameMode, frames, elapsed,
      lastUpdate, calls, lastCall, GBuffer, frameReads, prevMode, prevCall, got,
      Mesh, enumerated, resources>>

cameraVars == <<MainCamera>>
sceneVars == <<Level, Skybox, resources>>
enumVars == <<Mesh, enumerated>>
lightVars == <<NumPointLights, PointLights, emit, LightVertexBuffer>>
backendVars == <<fx, device, frameLog, frameMode, GBuffer, frameReads, prevMode>>
updateVars == <<frames, elapsed, lastUpdate>>

\* The sum of frame times as whole spawn intervals and a rest.
AddElapsed(el, frameTime) ==
    LET t == el.part + frameTime
    IN [whole |-> el.whole + (t \div SpawnInterval), part |-> t % SpawnInterval]

\* What InitDevice creates, call by call; SwapChain->GetBuffer creates nothing
\* that outlives InitDevice.
InitDeviceSteps ==
    << {"SwapChain", "g_pd3dDevice", "g_pd3dContext"},
       {},
       {"BackBufferRenderTarget"},
       {"DepthStencil"},
       {"DepthStencilView"},
       {"GBuffer[0]"}, {"GBufferRenderTarget[0]"}, {"GBufferShaderResource[0]"},
       {"GBuffer[1]"}, {"GBufferRenderTarget[1]"}, {"GBufferShaderResource[1]"},
       {"GBuffer[2]"}, {"GBufferRenderTarget[2]"}, {"GBufferShaderResource[2]"} >>

\* What LoadEffectFile creates: compiling the file leaves nothing on the
\* device, D3DX11CreateEffectFromMemory the effect.
LoadEffectFileSteps == << {}, {"Effect"} >>

\* The objects InitScene makes with new before any call that can fail.
InitSceneObjects == {"MainCamera", "Skybox", "Level"}

\* What each call of InitScene that can fail creates: the two Load calls,
\* CreateBuffer (with the unchecked CreateInputLayout after it) and the load
\* of flare.jpg.
InitSceneSteps ==
    << {}, {}, {"LightVertexBuffer", "LightVertexLayout"}, {"LightDiffuseMap"} >>

\* The objects left by the calls before call k failed, and by all of them.
CreatedBefore(steps, k) == UNION {steps[i] : i \in 1..(k - 1)}
Created(steps) == CreatedBefore(steps, Len(steps) + 1)

\* ReleaseResources( ): what is left of the objects in res.
ReleaseResources(res) ==
    res \ {"Level", "Skybox", "MainCamera", "LightVertexBuffer", "LightDiffuseMap",
           "Effect", "DepthShaderView", "DepthStencilView",
           "BackBufferRenderTarget", "DepthStencil", "SwapChain", "g_pd3dDevice"}

\* The globals as the program is loaded.
InitGlobals ==
    /\ MainCamera = DefaultCamera
    /\ Level = NewMesh
    /\ Skybox = NewMesh
    /\ Deferred = TRUE
    /\ NumPointLights = 1
    /\ PointLights = InitialPointLights
    /\ emit = SpawnInterval
    /\ LightVertexBuffer = [i \in LightIdx |-> DiscardedLight]
    /\ fx = [ViewMatrixVar |-> ZeroMatrix, InvViewMatrixVar |-> ZeroMatrix,
             ProjMatrixVar |-> ZeroMatrix, ViewProjMatrixVar |-> ZeroMatrix,
             CameraPosVar |-> <<0, 0, 0>>, CameraNearClipVar |-> 0,
             NumPointLightsVar |-> 0,
             PointLightsVar |-> [i \in LightIdx |-> ZeroLight],
             GBufferShaderVar |-> {}]
    /\ device = [targets |-> "None", technique |-> "None", srv |-> {}]
    /\ frameLog = <<>>
    /\ frameMode = "none"
    /\ frames = 0
    /\ elapsed = [whole |-> 0, part |-> 0]
    /\ lastUpdate = [frameTime |-> 0, before |-> 1, topUps |-> 0,
                     emitBefore |-> SpawnInterval, map |-> "S_OK",
                     copied |-> FALSE]
    /\ calls = 0
    /\ lastCall = "CCamera"
    /\ GBuffer = [p \in Pixels |-> 0]
    /\ frameReads = {}
    /\ prevMode = "none"
    /\ prevCall = "none"
    /\ got = NoResult

\* The sub-mesh tables a loaded mesh can have: one or two sub-meshes, each of
\* one or more triangles over three or four vertices.
SubMeshTables ==
    LET SubMesh == [numFaces : 1..MaxFaces, numVertices : {3, 4}]
    IN {<<a>> : a \in SubMesh} \cup {<<a, b>> : a \in SubMesh, b \in SubMesh}

LoadedMeshes == {MeshOf(t) : t \in SubMeshTables}

\* No enumeration call made yet.
NothingEnumerated ==
    [calls |-> 0, triangles |-> <<>>, trianglesEnded |-> FALSE,
     vertices |-> <<>>, verticesEnded |-> FALSE]

\* A mesh of one triangle.
OneTriangle == MeshOf(<<[numFaces |-> 1, numVertices |-> 3]>>)

\* The state all specifications but SpecStartup and SpecEnum start in:
\* InitDevice and LoadEffectFile have succeeded.
Init ==
    /\ pc = "InitScene"
    /\ resources = Created(InitDeviceSteps) \cup Created(LoadEffectFileSteps)
    /\ Mesh = OneTriangle
    /\ enumerated = NothingEnumerated
    /\ InitGlobals

\* The same with any mesh to enumerate.
InitEnum ==
    /\ pc = "InitScene"
    /\ resources = Created(InitDeviceSteps) \cup Created(LoadEffectFileSteps)
    /\ Mesh \in LoadedMeshes
    /\ enumerated = NothingEnumerated
    /\ InitGlobals

\* The state wWinMain starts in, once the window is there.
InitStartup ==
    /\ pc = "InitDevice"
    /\ resources = {}
    /\ Mesh = OneTriangle
    /\ enumerated = NothingEnumerated
    /\ InitGlobals

(***************************************************************************)
(* The program: InitScene, then RenderScene and UpdateScene in turn.       *)
(***************************************************************************)
\* InitScene succeeding; the camera rotation (8, 115, 0 degrees) is taken to
\* the nearest quarter turns.
InitScene(levelSubMeshes, skyboxSubMeshes) ==
    /\ pc = "InitScene"
    /\ MainCamera' = SetRotation(SetPosition(DefaultCamera, <<-320, 70, 100>>),
                                 <<0, 1, 0>>)
    /\ Level' = LoadedMesh(levelSubMeshes)
    /\ Skybox' = LoadedMesh(skyboxSubMeshes)
    /\ resources' = resources \cup InitSceneObjects \cup Created(InitSceneSteps)
    /\ LightVertexBuffer' = PointLights
    /\ pc' = "RenderScene"
    /\ UNCHANGED <<Deferred, NumPointLights, PointLights, emit>>
    /\ lastCall' = "SetRotation"
    /\ prevCall' = "SetPosition"
    /\ UNCHANGED <<backendVars, updateVars, calls, got, enumVars>>

\* RenderScene( ) with the pixels the level geometry is rasterised to.
RenderScene(covered) ==
    /\ pc = "RenderScene"
    /\ LET pushed == PushLights(PushCamera(fx, MainCamera), Deferred,
                                PointLights, NumPointLights)
           r == Run([fx |-> pushed, device |-> device, log |-> <<>>,
                     gbuffer |-> GBuffer, reads |-> {},
                     covered |-> covered, stamp |-> frames + 1],
                    RenderCommands(Deferred, Level, Skybox, NumPointLights))
       IN /\ fx' = r.fx
          /\ device' = r.device
          /\ frameLog' = r.log
          /\ GBuffer' = r.gbuffer
          /\ frameReads' = r.reads
    /\ frameMode' = IF Deferred THEN "deferred" ELSE "forward"
    /\ prevMode' = frameMode
    /\ pc' = "UpdateScene"
    /\ UNCHANGED <<cameraVars, sceneVars, Deferred, lightVars, updateVars, calls,
                   lastCall, prevCall, got, enumVars>>

\* UpdateScene( frameTime ) with the keys held, whether Key_Back was hit, what
\* the Random( ) calls return and what Map returns.  The result of Map is not
\* looked at: CopyMemory writes through mappedData.pData whatever it is.  When
\* Map failed that pointer was never set, and the write either faults or lands
\* outside the light buffer, which then keeps what it held.  When the spawn
\* loop never ends, the call stays in it after the camera calls.
UpdateScene(frameTime, held, backHit, rnd, map) ==
    /\ pc = "UpdateScene"
    /\ MainCamera' = UpdateCamera(MainCamera, frameTime, held)
    /\ LET st == SpawnLoop([emit |-> SubF32(emit, frameTime), n |-> NumPointLights,
                            lights |-> PointLights, topUps |-> 0], rnd)
           moved == OrbitLights(st.lights, st.n, frameTime)
       IN /\ emit' = st.emit
          /\ NumPointLights' = st.n
          /\ IF NeverEnds(st, rnd)
             THEN /\ PointLights' = st.lights
                  /\ pc' = "SpawnLoop"
                  /\ UNCHANGED <<LightVertexBuffer, lastUpdate, Deferred, frames,
                                 elapsed>>
             ELSE /\ PointLights' = moved
                  /\ LightVertexBuffer' = IF map = "S_OK"
                                          THEN UploadLights(moved, st.n)
                                          ELSE LightVertexBuffer
                  /\ lastUpdate' = [frameTime |-> frameTime,
                                    before |-> NumPointLights,
                                    topUps |-> st.topUps, emitBefore |-> emit,
                                    map |-> map, copied |-> TRUE]
                  /\ Deferred' = IF backHit THEN ~Deferred ELSE Deferred
                  /\ frames' = frames + 1
                  /\ elapsed' = AddElapsed(elapsed, frameTime)
                  /\ \E faults \in (IF map = "S_OK" THEN {FALSE} ELSE BOOLEAN) :
                         pc' = IF faults THEN "Crashed" ELSE "RenderScene"
    /\ lastCall' = "UpdateMatrices"
    /\ prevCall' = "Control"
    /\ UNCHANGED <<sceneVars, backendVars, calls, got, enumVars>>

(***************************************************************************)
(* Starting up and shutting down.  failed is the call that fails, 0 when   *)
(* none does.                                                              *)
(***************************************************************************)
programVars ==
    <<cameraVars, Level, Skybox, Deferred, lightVars, backendVars, updateVars,
      calls, lastCall, prevCall, got, enumVars>>

InitDevice(failed) ==
    /\ pc = "InitDevice"
    /\ resources' = IF failed = 0 THEN Created(InitDeviceSteps)
                    ELSE CreatedBefore(InitDeviceSteps, failed)
    /\ pc' = IF failed = 0 THEN "LoadEffectFile" ELSE "InitFailed"
    /\ UNCHANGED programVars

LoadEffectFile(failed) ==
    /\ pc = "LoadEffectFile"
    /\ resources' = resources \cup (IF failed = 0 THEN Created(LoadEffectFileSteps)
                                    ELSE CreatedBefore(LoadEffectFileSteps, failed))
    /\ pc' = IF failed = 0 THEN "InitScene" ELSE "InitFailed"
    /\ UNCHANGED programVars

\* InitScene returning false at one of its four checked calls.
InitSceneFails(failed) ==
    /\ pc = "InitScene"
    /\ MainCamera' = SetRotation(SetPosition(DefaultCamera, <<-320, 70, 100>>),
                                 <<0, 1, 0>>)
    /\ Level' = IF failed > 1 THEN LoadedMesh(1) ELSE NewMesh
    /\ Skybox' = IF failed > 2 THEN LoadedMesh(1) ELSE NewMesh
    /\ LightVertexBuffer' = IF failed > 3 THEN PointLights ELSE LightVertexBuffer
    /\ resources' = resources \cup InitSceneObjects
                        \cup CreatedBefore(InitSceneSteps, failed)
    /\ pc' = "InitFailed"
    /\ lastCall' = "SetRotation"
    /\ prevCall' = "SetPosition"
    /\ UNCHANGED <<Deferred, NumPointLights, PointLights, emit, backendVars,
                   updateVars, calls, got, enumVars>>

\* wWinMain when one of the three returned false: ReleaseResources, return 0.
AbortStartup ==
    /\ pc = "InitFailed"
    /\ resources' = ReleaseResources(resources)
    /\ pc' = "ExitAfterFailure"
    /\ UNCHANGED programVars

\* wWinMain leaving the message loop on WM_QUIT.
Quit ==
    /\ pc = "RenderScene"
    /\ resources' = ReleaseResources(resources)
    /\ pc' = "Exit"
    /\ UNCHANGED programVars

(***************************************************************************)
(* The enumeration interface of CMesh on its own: any sequence of calls.   *)
(***************************************************************************)
EnumCall(mesh, log) ==
    /\ enumerated.calls < MaxEnumCalls
    /\ Mesh' = mesh
    /\ enumerated' = [log EXCEPT !.calls = enumerated.calls + 1]
    /\ UNCHANGED <<pc, cameraVars, sceneVars, Deferred, lightVars, backendVars,
                   updateVars, calls, lastCall, prevCall, got>>

CallBeginEnumTriangles ==
    EnumCall(BeginEnumTriangles(Mesh),
             [enumerated EXCEPT !.triangles = <<>>, !.trianglesEnded = FALSE])

CallGetTriangle ==
    LET r == GetTriangle(Mesh)
    IN EnumCall(r.mesh,
                IF r.result
                THEN [enumerated EXCEPT !.triangles = Append(@, r.element)]
                ELSE [enumerated EXCEPT !.trianglesEnded = TRUE])

CallBeginEnumVertices ==
    EnumCall(BeginEnumVertices(Mesh),
             [enumerated EXCEPT !.vertices = <<>>, !.verticesEnded = FALSE])

CallGetVertex ==
    LET r == GetVertex(Mesh)
    IN EnumCall(r.mesh,
                IF r.result
                THEN [enumerated EXCEPT !.vertices = Append(@, r.element)]
                ELSE [enumerated EXCEPT !.verticesEnded = TRUE])

(***************************************************************************)
(* The camera class on its own: any sequence of its methods.               *)
(***************************************************************************)
CameraCall(method, cam) ==
    /\ calls < MaxCalls
    /\ MainCamera' = cam
    /\ calls' = calls + 1
    /\ lastCall' = method
    /\ prevCall' = lastCall
    /\ UNCHANGED <<pc, sceneVars, Deferred, lightVars, backendVars, updateVars,
                   enumVars>>

\* A camera method that returns nothing.
CameraMethod(method, cam) == CameraCall(method, cam) /\ got' = got

CallSetPosition(position) ==
    CameraMethod("SetPosition", SetPosition(MainCamera, position))
CallSetRotation(rotation) ==
    CameraMethod("SetRotation", SetRotation(MainCamera, rotation))
CallSetFOV(fov) == CameraMethod("SetFOV", SetFOV(MainCamera, fov))
CallSetNearClip(nearClip) ==
    CameraMethod("SetNearClip", SetNearClip(MainCamera, nearClip))
CallSetFarClip(farClip) == CameraMethod("SetFarClip", SetFarClip(MainCamera, farClip))
CallControl(frameTime, held) ==
    CameraMethod("Control", Control(MainCamera, frameTime, ControlKeys, held))
CallUpdateMatrices == CameraMethod("UpdateMatrices", UpdateMatrices(MainCamera))

\* The five accessors called for each stereo mode with the same interocular
\* distance and screen distance.
CallAccessors(interocular, screenDistance) ==
    /\ CameraCall("Accessors", AfterAccessors(MainCamera, interocular, screenDistance))
    /\ got' = [interocular |-> interocular, screenDistance |-> screenDistance,
               position |-> [m \in EStereoscopic |->
                               GetPosition(MainCamera, m, interocular)],
               world |-> [m \in EStereoscopic |->
                            GetWorldMatrix(MainCamera, m, interocular)],
               view |-> [m \in EStereoscopic |->
                           GetViewMatrix(MainCamera, m, interocular)],
               proj |-> [m \in EStereoscopic |->
                           GetProjectionMatrix(MainCamera, m, interocular,
                                               screenDistance)],
               viewProj |-> [m \in EStereoscopic |->
                               GetViewProjectionMatrix(MainCamera, m, interocular,
                                                       screenDistance)]]

(***************************************************************************)
(* Inputs.  Frame times are float32 values in units of 2^-36 s:            *)
(*   13743895 = 0.0002f, 20615844 = 0.0003f, 68719480 = 0.001f;            *)
(*   13743888 is just under one spawn interval, 54975588 just over four.   *)
(***************************************************************************)
FrameTimes == {0, 13743888, 13743895, 20615844, 54975588, 68719480}

ProgramFrameTimes == {0, 13743895, 20615844}

KeySets == { {}, {"Key_D", "Key_Right"}, {"Key_W", "Key_Down"} }

OneRandomLight == CHOOSE l \in RandomLights : l.radius = 20

\* The level is seen at pixel 1, the sky at the other pixels.
SceneCoverage == {1}
\* What the level geometry can cover, from nothing to the whole viewport.
Coverages == SUBSET Pixels

\* Interocular distances (even, so that half of them is whole; 0 for no
\* separation of the eyes) and screen distances passed to the accessors.
Interoculars == {0, 2, 6}
ScreenDistances == {1, 4}

\* A frame of 5000 s (10240000 cells of 2^-11 s): the program was suspended,
\* or held in the modal loop of a window drag, between two frames.
LongFrameTimes == {LongTime(10240000)}

\* What Map can return: success, or a failure such as a removed device.
MapResults == {"S_OK", "DXGI_ERROR_DEVICE_REMOVED"}

CameraPositions == { <<-320, 70, 100>>, <<0, 0, 5>> }
CameraRotations == { <<0, 1, 0>>, <<1, 2, 3>> }

(***************************************************************************)
(* Specifications                                                          *)
(***************************************************************************)
\* The program with the camera keys and the mode toggle in use.
Next ==
    \/ \E l \in 1..MaxSubMeshes, s \in 1..MaxSubMeshes : InitScene(l, s)
    \/ RenderScene(SceneCoverage)
    \/ /\ frames < MaxFrames
       /\ \E ft \in ProgramFrameTimes, held \in KeySets, back \in BOOLEAN :
              UpdateScene(ft, held, back, OneRandomLight, "S_OK")

Spec == Init /\ [][Next]_vars

\* The program with every frame time and random light, no key pressed.
NextLights ==
    \/ InitScene(1, 1)
    \/ RenderScene(SceneCoverage)
    \/ /\ frames < MaxLightFrames
       /\ \E ft \in FrameTimes, rnd \in RandomLights : UpdateScene(ft, {}, FALSE, rnd, "S_OK")

SpecLights == Init /\ [][NextLights]_vars

\* The program run for 5001 frames of 0.001 s.
NextSteady ==
    \/ InitScene(1, 1)
    \/ RenderScene(SceneCoverage)
    \/ /\ frames < SteadyFrames
       /\ UpdateScene(68719480, {}, FALSE, OneRandomLight, "S_OK")

SpecSteady == Init /\ [][NextSteady]_vars

\* The program with the mode toggle in use and any coverage of the viewport.
NextGBuffer ==
    \/ InitScene(1, 1)
    \/ \E covered \in Coverages : RenderScene(covered)
    \/ /\ frames < MaxFrames
       /\ \E ft \in {0, 20615844}, back \in BOOLEAN :
              UpdateScene(ft, {}, back, OneRandomLight, "S_OK")

SpecGBuffer == Init /\ [][NextGBuffer]_vars

\* The program with short and long frames, no key pressed.
NextLongFrame ==
    \/ InitScene(1, 1)
    \/ RenderScene(SceneCoverage)
    \/ /\ frames < MaxLightFrames
       /\ \E ft \in FrameTimes \cup LongFrameTimes :
              UpdateScene(ft, {}, FALSE, OneRandomLight, "S_OK")

SpecLongFrame == Init /\ [][NextLongFrame]_vars

\* The program with Map succeeding or failing, no key pressed.
NextUpload ==
    \/ InitScene(1, 1)
    \/ RenderScene(SceneCoverage)
    \/ /\ frames < MaxFrames
       /\ \E ft \in FrameTimes, map \in MapResults :
              UpdateScene(ft, {}, FALSE, OneRandomLight, map)

SpecUpload == Init /\ [][NextUpload]_vars

\* The program from the start of wWinMain, any creation call failing.
NextStartup ==
    \/ \E failed \in 0..Len(InitDeviceSteps) : InitDevice(failed)
    \/ \E failed \in 0..Len(LoadEffectFileSteps) : LoadEffectFile(failed)
    \/ \E failed \in 1..Len(InitSceneSteps) : InitSceneFails(failed)
    \/ AbortStartup
    \/ InitScene(1, 1)
    \/ RenderScene(SceneCoverage)
    \/ /\ frames < MaxFrames
       /\ \E ft \in ProgramFrameTimes, back \in BOOLEAN :
              UpdateScene(ft, {}, back, OneRandomLight, "S_OK")
    \/ Quit

SpecStartup == InitStartup /\ [][NextStartup]_vars

\* A loaded mesh enumerated by any sequence of calls.
NextEnum ==
    \/ CallBeginEnumTriangles
    \/ CallGetTriangle
    \/ CallBeginEnumVertices
    \/ CallGetVertex

SpecEnum == InitEnum /\ [][NextEnum]_vars

\* The camera driven by any sequence of method calls.
NextCamera ==
    \/ \E p \in CameraPositions : CallSetPosition(p)
    \/ \E r \in CameraRotations : CallSetRotation(r)
    \/ CallSetFOV(2)
    \/ CallSetNearClip(2)
    \/ CallSetFarClip(1000)
    \/ \E ft \in {13743895, 20615844}, held \in KeySets \ {{}} : CallControl(ft, held)
    \/ CallUpdateMatrices
    \/ \E d \in Interoculars, sd \in ScreenDistances : CallAccessors(d, sd)

SpecCamera == Init /\ [][NextCamera]_vars

(***************************************************************************)
(* Claims                                                                  *)
(***************************************************************************)

\* C1: in every reachable state the live light count NumPointLights is at most
\* the capacity MaxPointLights, and the array keeps exactly its MaxPointLights
\* entries (no entry at an index >= capacity is written).
C1_CountWithinCapacity ==
    /\ NumPointLights \in 0..MaxPointLights
    /\ DOMAIN PointLights = LightIdx

\* An update found the array full and still had spawn intervals to make up.
C1_Witness ==
    /\ NumPointLights = MaxPointLights
    /\ lastUpdate.topUps > NumPointLights - lastUpdate.before

\* C2: the live light count never goes down in any step (UpdateScene or
\* RenderScene) and, starting from the seed light, is always at least 1.
C2_CountNeverDecreases ==
    /\ [](NumPointLights >= 1)
    /\ [][NumPointLights' >= NumPointLights]_vars

\* A frame was rendered after an update that appended lights.
C2_Witness ==
    /\ pc = "UpdateScene"
    /\ frames >= 1
    /\ NumPointLights > lastUpdate.before

\* C3 as stated: after 5001 updates of 0.001 s each the live count equals 2.
C3_CountIsTwoAfter5001 == frames = 5001 => NumPointLights = 2

\* C3 amended: every update of 0.001 s makes five top-ups of 1/5000 s, so after
\* k such updates the count is 5 * k + 1 (25006 after 5001 updates) capped by
\* MaxPointLights; it is already above 2 after the first update.
C3_FivePerUpdate ==
    /\ frames >= 1 => lastUpdate.topUps = 5
    /\ NumPointLights = Min(MaxPointLights, 5 * frames + 1)

\* 5001 updates of 0.001 s have been made.
C3_Witness == frames = 5001 /\ lastUpdate.frameTime = 68719480

\* Number of spawn instants (multiples of the spawn interval) strictly before
\* the elapsed time.
IntervalsCrossed(el) == IF el.part > 0 THEN el.whole ELSE Max(0, el.whole - 1)

\* C4 as stated: an update that crosses k spawn intervals appends exactly k
\* lights, so the count is fixed by the total elapsed time and the capacity.
C4_CountFollowsElapsedTime ==
    NumPointLights = Min(MaxPointLights, 1 + IntervalsCrossed(elapsed))

\* C4 amended: no spawn is left pending: every update ends with the
\* accumulator non-negative, having appended one light for each top-up it made
\* while below capacity (several in the same update for a slow frame).
C4_NoSpawnLeftPending ==
    /\ emit >= 0
    /\ NumPointLights = Min(MaxPointLights, lastUpdate.before + lastUpdate.topUps)

\* One update appended several lights.
C4_Witness == NumPointLights >= lastUpdate.before + 2

\* C5: light 0 keeps its startup position, radius and colour.
C5_SeedLightUnchanged == PointLights[0] = SeedLight

\* The orbital update has moved a spawned light.
C5_Witness ==
    /\ frames >= 1
    /\ NumPointLights >= 2
    /\ \A l \in RandomLights : PointLights[1].position # l.position

\* Rz(rotation.z) * Rx(rotation.x) * Ry(rotation.y) * T(position), multiplied
\* out by hand (row vectors, as D3DX lays matrices out).
ZXYWorld(position, rotation) ==
    LET sx == Sin(rotation[1])
        cx == Cos(rotation[1])
        sy == Sin(rotation[2])
        cy == Cos(rotation[2])
        sz == Sin(rotation[3])
        cz == Cos(rotation[3])
    IN << <<cz * cy + sz * sx * sy, sz * cx, sz * sx * cy - cz * sy, 0>>,
          <<cz * sx * sy - sz * cy, cz * cx, sz * sy + cz * sx * cy, 0>>,
          <<cx * sy, -sx, cx * cy, 0>>,
          <<position[1], position[2], position[3], 1>> >>

\* C6: in every camera state (after construction, a setter, Control or
\* UpdateMatrices) the cached view matrix is the inverse of the cached world
\* matrix, and the world matrix that UpdateMatrices leaves is
\* Rz(rotation.z) * Rx(rotation.x) * Ry(rotation.y) * T(position).
C6_ViewIsInverseOfWorld ==
    /\ MatMul(MainCamera.m_ViewMatrix, MainCamera.m_WorldMatrix) = Identity
    /\ MatMul(MainCamera.m_WorldMatrix, MainCamera.m_ViewMatrix) = Identity
    /\ lastCall \in {"CCamera", "UpdateMatrices"} =>
           MainCamera.m_WorldMatrix =
               ZXYWorld(MainCamera.m_Position, MainCamera.m_Rotation)

\* UpdateMatrices has run on a camera turned about both x and y and moved away
\* from the origin.
C6_Witness ==
    /\ lastCall = "UpdateMatrices"
    /\ calls >= 2
    /\ MainCamera.m_Rotation[1] % 4 # 0
    /\ MainCamera.m_Rotation[2] % 4 # 0
    /\ MainCamera.m_Position # <<0, 0, 0>>

\* C7: whenever RenderScene has just run, the world, view and combined matrices
\* it passed to the shaders are the ones of the camera's current position and
\* rotation, the position it passed as CameraPos.
C7_RenderedMatricesAreCurrent ==
    pc = "UpdateScene" =>
        /\ fx.CameraPosVar = MainCamera.m_Position
        /\ fx.InvViewMatrixVar = ZXYWorld(MainCamera.m_Position, MainCamera.m_Rotation)
        /\ MatMul(fx.ViewMatrixVar, fx.InvViewMatrixVar) = Identity
        /\ fx.ViewProjMatrixVar = MatMul(fx.ViewMatrixVar, fx.ProjMatrixVar)

\* Positions in the log of the latest frame.
LogIdx == 1..Len(frameLog)
IsCall(i, op, name) == frameLog[i].op = op /\ frameLog[i].name = name
IsDraw(i) == frameLog[i].op \in {"Draw", "DrawIndexed"}
CallsOf(op, name) == {i \in LogIdx : IsCall(i, op, name)}
DrawsWith(technique) ==
    {i \in LogIdx : frameLog[i].op = "Draw" /\ frameLog[i].technique = technique}
\* Every position of A comes before every position of B.
Before(A, B) == \A i \in A : \A j \in B : i < j

\* C8: a deferred frame binds the three G-buffer targets, draws the level mesh
\* into them, rebinds the back buffer, binds the three G-buffer textures as
\* inputs, draws the ambient quad, draws the point lights and unbinds the three
\* textures, in that order; no draw that reads the G-buffer comes before a
\* geometry draw of the frame.
C8_DeferredSubPassOrder ==
    frameMode = "deferred" =>
        LET toGBuffer == CallsOf("OMSetRenderTargets", "GBuffer")
            geometry == CallsOf("DrawIndexed", "Level")
            toBackBuffer == CallsOf("OMSetRenderTargets", "BackBuffer")
            binds == CallsOf("SetResource", "Bind")
            ambient == DrawsWith("AmbientLight")
            lights == DrawsWith("PointLight")
            unbinds == CallsOf("SetResource", "Unbind")
            readers == {i \in LogIdx : IsDraw(i) /\ frameLog[i].technique \in GBufferReaders}
        IN /\ Cardinality(toGBuffer) = 1
           /\ \A i \in toGBuffer : frameLog[i].n = 3
           /\ geometry # {}
           /\ \A i \in geometry : /\ frameLog[i].technique = "GBuffer"
                                  /\ frameLog[i].targets = "GBuffer"
           /\ Cardinality(toBackBuffer) = 1
           /\ {frameLog[i].n : i \in binds} = GBufferIdx
           /\ Cardinality(ambient) = 1
           /\ Cardinality(lights) = 1
           /\ pc = "UpdateScene" => \A i \in lights : frameLog[i].n = NumPointLights
           /\ {frameLog[i].n : i \in unbinds} = GBufferIdx
           /\ Before(toGBuffer, geometry)
           /\ Before(geometry, toBackBuffer)
           /\ Before(toBackBuffer, binds)
           /\ Before(binds, ambient)
           /\ Before(ambient, lights)
           /\ Before(lights, unbinds)
           /\ Before(geometry, readers)
           /\ readers = ambient \cup lights

\* A deferred frame of a level mesh of several sub-meshes and several lights.
C8_Witness ==
    /\ frameMode = "deferred"
    /\ pc = "UpdateScene"
    /\ Level.m_NumSubMeshes >= 2
    /\ NumPointLights >= 2

\* C9: in every frame the depth buffer is cleared before any draw, the skybox
\* is drawn with technique PixelLitTex after the forward or deferred work, the
\* light flares are the last draw, and Present is called once, after them.
C9_FrameOrder ==
    frameMode # "none" =>
        LET draws == {i \in LogIdx : IsDraw(i)}
            clears == CallsOf("ClearDepthStencilView", "DepthStencilView")
            modeWork == CallsOf("DrawIndexed", "Level") \cup DrawsWith("AmbientLight")
                        \cup DrawsWith("PointLight") \cup CallsOf("SetResource", "Unbind")
            sky == CallsOf("DrawIndexed", "Skybox")
            flares == DrawsWith("LightParticles")
            presents == CallsOf("Present", "SwapChain")
        IN /\ clears = {1}
           /\ Before(clears, draws)
           /\ modeWork # {}
           /\ sky # {}
           /\ \A i \in sky : frameLog[i].technique = "PixelLitTex"
           /\ Before(modeWork, sky)
           /\ Cardinality(flares) = 1
           /\ Before(draws \ flares, flares)
           /\ presents = {Len(frameLog)}
           /\ Before(flares, presents)

\* A forward frame drawn after the mode was switched, with spawned lights.
C9_Witness ==
    /\ frameMode = "forward"
    /\ pc = "UpdateScene"
    /\ frames >= 1
    /\ NumPointLights >= 2

\* The G-buffer is bound for writing and for reading at once.
ReadWriteHazard(targets, gvar, srv) == targets = "GBuffer" /\ (gvar # {} \/ srv # {})

\* C10: at no backend call of any frame, and between frames, are the G-buffer
\* targets the render targets while a G-buffer texture is bound as a shader
\* input; while a texture is bound as an input the render target is the back
\* buffer.
C10_NoReadWriteHazard ==
    /\ ~ReadWriteHazard(device.targets, fx.GBufferShaderVar, device.srv)
    /\ \A i \in LogIdx :
          /\ ~ReadWriteHazard(frameLog[i].targets, frameLog[i].gvar, frameLog[i].srv)
          /\ (frameLog[i].gvar # {} \/ frameLog[i].srv # {}) =>
                 frameLog[i].targets = "BackBuffer"

\* A deferred frame that follows earlier frames and has bound the three
\* textures as inputs for its resolve draws.
C10_Witness ==
    /\ frameMode = "deferred"
    /\ frames >= 2
    /\ \E i \in LogIdx : IsDraw(i) /\ frameLog[i].srv = GBufferIdx
                         /\ frameLog[i].targets = "BackBuffer"

\* Calls and techniques that only the deferred branch uses.
DeferredOnly(i) ==
    \/ frameLog[i].op = "SetResource"
    \/ IsCall(i, "OMSetRenderTargets", "GBuffer")
    \/ frameLog[i].technique \in GBufferReaders \cup {"GBuffer"}

\* C11: a forward frame never binds the G-buffer as target or input, writes
\* none of its pixels and samples none; a deferred frame (the first one after
\* switching back included) draws its geometry into the G-buffer before any
\* resolve draw samples it; the mode flag changes only in UpdateScene, so that
\* every RenderScene call runs in the one mode the flag has.
C11_ModeToggleKeepsGBufferSound ==
    /\ [](frameMode = "forward" =>
            /\ \A i \in LogIdx :
                  /\ ~DeferredOnly(i)
                  /\ frameLog[i].targets # "GBuffer"
                  /\ frameLog[i].gvar = {}
                  /\ frameLog[i].srv = {}
            /\ frameReads = {})
    /\ [](frameMode = "deferred" =>
            LET geometry == {i \in LogIdx : IsCall(i, "DrawIndexed", "Level")
                                            /\ frameLog[i].targets = "GBuffer"}
                readers == {i \in LogIdx : IsDraw(i) /\ frameLog[i].srv # {}}
            IN /\ geometry # {}
               /\ readers # {}
               /\ Before(geometry, readers)
               /\ \A i \in CallsOf("DrawIndexed", "Level") :
                      frameLog[i].technique = "GBuffer")
    /\ [](pc = "UpdateScene" =>
            frameMode = IF Deferred THEN "deferred" ELSE "forward")
    /\ [][(pc = "RenderScene" /\ ~Deferred) => GBuffer' = GBuffer]_vars
    /\ [][Deferred' # Deferred => (pc = "UpdateScene" /\ pc' = "RenderScene")]_vars

\* A deferred frame has been drawn right after a forward frame, which itself
\* followed a deferred frame that filled the G-buffer.
C11_Witness ==
    /\ pc = "UpdateScene"
    /\ frameMode = "deferred"
    /\ prevMode = "forward"
    /\ \E p \in Pixels : GBuffer[p] = 1

\* C12: in a deferred frame every G-buffer pixel that the ambient draw or the
\* point light draw samples holds what the geometry pass of that same frame
\* wrote there, never what an earlier frame or the creation of the texture
\* left.
C12_NoStaleGBufferSample ==
    (pc = "UpdateScene" /\ frameMode = "deferred") =>
        \A rd \in frameReads : rd.stamp = frames + 1

\* The difference of two positions.
Minus(a, b) == <<a[1] - b[1], a[2] - b[2], a[3] - b[3]>>
\* A position or a matrix row scaled by a whole number.
Scaled(k, v) == <<k * v[1], k * v[2], k * v[3]>>

\* C14: the positions GetPosition returns for the right and the left eye with
\* the same interocular distance d lie opposite each other about the stored
\* position: each is the stored position plus (right) or minus (left) d/2
\* times the first row of the cached world matrix.
C14_StereoPositionsSymmetric ==
    lastCall = "Accessors" =>
        LET p == MainCamera.m_Position
            right == Minus(got.position["StereoscopicRight"], p)
            left == Minus(got.position["StereoscopicLeft"], p)
            half == got.interocular \div 2
        IN /\ right = Scaled(-1, left)
           /\ right = Scaled(half, MainCamera.m_WorldMatrix[1])
           /\ left = Scaled(-half, MainCamera.m_WorldMatrix[1])

\* GetPosition has been called on a camera turned away from the x axis whose
\* matrices are up to date.
C14_Witness ==
    /\ lastCall = "Accessors"
    /\ prevCall = "UpdateMatrices"
    /\ MainCamera.m_WorldMatrix[1] # <<1, 0, 0, 0>>
    /\ got.position["StereoscopicRight"] # got.position["StereoscopicLeft"]

\* C15: with Monoscopic every accessor returns the stored position or cached
\* matrix whatever interocular and screen distance it is given, and calling
\* the accessors, in any stereo mode, changes no field of the camera.
C15_MonoscopicReturnsStored ==
    /\ [](lastCall = "Accessors" =>
            /\ got.position["Monoscopic"] = MainCamera.m_Position
            /\ got.world["Monoscopic"] = MainCamera.m_WorldMatrix
            /\ got.view["Monoscopic"] = MainCamera.m_ViewMatrix
            /\ got.proj["Monoscopic"] = MainCamera.m_ProjMatrix
            /\ got.viewProj["Monoscopic"] = MainCamera.m_ViewProjMatrix)
    /\ [][lastCall' = "Accessors" => MainCamera' = MainCamera]_vars

\* The accessors have been called with a non-zero interocular distance on a
\* camera that was moved and turned, so that stored and offset values differ.
C15_Witness ==
    /\ lastCall = "Accessors"
    /\ got.interocular = 6
    /\ got.screenDistance = 4
    /\ MainCamera.m_Position # <<0, 0, 0>>
    /\ got.position["StereoscopicLeft"] # got.position["Monoscopic"]
    /\ got.proj["StereoscopicLeft"] # got.proj["Monoscopic"]

\* C16: for the left and the right eye GetWorldMatrix returns the cached world
\* matrix with only its translation row changed, by exactly the offset that
\* GetPosition adds to the position for the same arguments.
C16_WorldOffsetMatchesPosition ==
    lastCall = "Accessors" =>
        \A m \in EStereoscopic \ {"Monoscopic"} :
            LET W == got.world[m]
                C == MainCamera.m_WorldMatrix
                delta == Minus(got.position[m], MainCamera.m_Position)
            IN /\ W[1] = C[1]
               /\ W[2] = C[2]
               /\ W[3] = C[3]
               /\ Minus(W[4], C[4]) = delta
               /\ W[4][4] = C[4][4]

\* GetWorldMatrix has been called for a camera away from the origin, turned,
\* and the translation row it returned differs from the cached one.
C16_Witness ==
    /\ lastCall = "Accessors"
    /\ MainCamera.m_WorldMatrix[4] # <<0, 0, 0, 1>>
    /\ MainCamera.m_WorldMatrix[1] # <<1, 0, 0, 0>>
    /\ got.world["StereoscopicLeft"][4] # MainCamera.m_WorldMatrix[4]

\* C17: for every stereo mode and interocular distance the matrix GetViewMatrix
\* returns is the inverse of the matrix GetWorldMatrix returns for the same
\* arguments.
C17_StereoViewIsInverseOfStereoWorld ==
    lastCall = "Accessors" =>
        \A m \in EStereoscopic :
            /\ MatMul(got.view[m], got.world[m]) = Identity
            /\ MatMul(got.world[m], got.view[m]) = Identity

\* GetViewMatrix has been called for a turned camera away from the origin and
\* returned, for the left eye, a matrix other than the cached one.
C17_Witness ==
    /\ lastCall = "Accessors"
    /\ prevCall = "UpdateMatrices"
    /\ MainCamera.m_WorldMatrix[1] # <<1, 0, 0, 0>>
    /\ got.view["StereoscopicLeft"] # MainCamera.m_ViewMatrix
    /\ got.view["StereoscopicLeft"] # got.view["StereoscopicRight"]

\* (offset / screenDistance) / (aspect * tan(fov / 2)) in thousandths.
FrustumShear(offset, screenDistance, aspect, fov) ==
    LET ratio == DivT(offset * 1000, screenDistance)
        halfWidth == (aspect * TanHalf(fov)) \div 1000
    IN DivT(ratio * 1000, halfWidth)

\* C18: for the left and the right eye GetProjectionMatrix returns the cached
\* projection matrix with entry _31 alone replaced, by
\* (offset / screenDistance) / (aspect * tan(fov / 2)) where offset is -d/2 for
\* the left and +d/2 for the right eye; the two values of the entry are
\* negatives of each other.
C18_StereoProjectionShear ==
    lastCall = "Accessors" =>
        LET P == MainCamera.m_ProjMatrix
            half == got.interocular \div 2
            Offset(m) == IF m = "StereoscopicLeft" THEN -half ELSE half
        IN /\ \A m \in EStereoscopic \ {"Monoscopic"} :
                 /\ \A i \in Idx, j \in Idx :
                        <<i, j>> # <<3, 1>> => got.proj[m][i][j] = P[i][j]
                 /\ got.proj[m][3][1] =
                        FrustumShear(Offset(m), got.screenDistance,
                                     MainCamera.m_Aspect, MainCamera.m_FOV)
           /\ got.proj["StereoscopicLeft"][3][1] = -got.proj["StereoscopicRight"][3][1]

\* GetProjectionMatrix has been called for a camera whose field of view was
\* changed, and the entry is not zero.
C18_Witness ==
    /\ lastCall = "Accessors"
    /\ MainCamera.m_FOV = 2
    /\ got.proj["StereoscopicRight"][3][1] > 0
    /\ got.proj["StereoscopicLeft"][3][1] < 0

\* C19: for every stereo mode GetViewProjectionMatrix returns the product of
\* what GetViewMatrix and GetProjectionMatrix return for the same arguments;
\* for Monoscopic this is the cached combined matrix, which right after
\* UpdateMatrices is the product of the inverse of the world matrix and the
\* projection matrix of the current fields; a second call with the same
\* arguments returns the same values.
C19_ViewProjectionIsProduct ==
    /\ [](lastCall = "Accessors" =>
            /\ \A m \in EStereoscopic :
                   got.viewProj[m] = MatMul(got.view[m], got.proj[m])
            /\ got.viewProj["Monoscopic"] = MainCamera.m_ViewProjMatrix
            /\ prevCall = "UpdateMatrices" =>
                   got.viewProj["Monoscopic"] =
                       MatMul(MatrixInverse(ZeroMatrix,
                                  ZXYWorld(MainCamera.m_Position, MainCamera.m_Rotation)),
                              MatrixPerspectiveFovLH(MainCamera.m_FOV, MainCamera.m_Aspect,
                                  MainCamera.m_NearClip, MainCamera.m_FarClip)))
    /\ [][(/\ lastCall = "Accessors"
           /\ lastCall' = "Accessors"
           /\ got'.interocular = got.interocular
           /\ got'.screenDistance = got.screenDistance) => got' = got]_vars

\* GetViewProjectionMatrix has been called right after UpdateMatrices on a
\* turned camera, and the stereo results differ from the cached matrix.
C19_Witness ==
    /\ lastCall = "Accessors"
    /\ prevCall = "UpdateMatrices"
    /\ MainCamera.m_Rotation # <<0, 0, 0>>
    /\ got.viewProj["StereoscopicLeft"] # got.viewProj["Monoscopic"]
    /\ got.viewProj["StereoscopicLeft"] # got.viewProj["StereoscopicRight"]

\* C20: UpdateMatrices leaves position, rotation, field of view, aspect and
\* clip distances as they are, and a second call right after the first leaves
\* the four cached matrices as the first call set them.
C20_UpdateMatricesIdempotent ==
    /\ [][lastCall' = "UpdateMatrices" =>
            /\ MainCamera'.m_Position = MainCamera.m_Position
            /\ MainCamera'.m_Rotation = MainCamera.m_Rotation
            /\ MainCamera'.m_FOV = MainCamera.m_FOV
            /\ MainCamera'.m_Aspect = MainCamera.m_Aspect
            /\ MainCamera'.m_NearClip = MainCamera.m_NearClip
            /\ MainCamera'.m_FarClip = MainCamera.m_FarClip]_vars
    /\ [][(lastCall = "UpdateMatrices" /\ lastCall' = "UpdateMatrices") =>
            MainCamera' = MainCamera]_vars

\* UpdateMatrices has been called twice in a row on a camera that a setter had
\* changed.
C20_Witness ==
    /\ lastCall = "UpdateMatrices"
    /\ prevCall = "UpdateMatrices"
    /\ MainCamera.m_WorldMatrix # Identity
(***************************************************************************)
(* C21: when InitDevice, LoadEffectFile or InitScene fails, ReleaseResources *)
(* releases every object created before the failure, the G-buffer textures *)
(* and their views and the light vertex layout included, so that nothing   *)
(* is left when wWinMain returns.                                          *)
(***************************************************************************)
C21_FailedStartupReleasesEverything ==
    pc = "ExitAfterFailure" => resources = {}

\* The part that holds: a failed start never reaches the frame loop.
C21_FailedStartupNeverRenders ==
    pc \in {"InitFailed", "ExitAfterFailure"} => frameLog = <<>> /\ frames = 0

(***************************************************************************)
(* C22: when Map of the light buffer fails in an update, the failure is    *)
(* detected and raised as a renderer error, no light data is copied        *)
(* through the mapping and no further rendering follows.                   *)
(***************************************************************************)
C22_MapFailureIsFatal ==
    (frames >= 1 /\ lastUpdate.map # "S_OK")
        => /\ ~lastUpdate.copied
           /\ pc \notin {"RenderScene", "UpdateScene"}

(***************************************************************************)
(* C23: CMesh::Render issues exactly one draw call for each sub-mesh of    *)
(* the mesh (and none for a mesh without geometry): in every frame, which  *)
(* renders the level and the skybox once each, each of their sub-meshes    *)
(* is drawn once.                                                          *)
(***************************************************************************)
DrawCallsOf(name, subMesh) ==
    {i \in CallsOf("DrawIndexed", name) : frameLog[i].n = subMesh}

C23_OneDrawPerSubMesh ==
    pc = "UpdateScene"
        => /\ \A sm \in 0..(Level.m_NumSubMeshes - 1) :
                  Cardinality(DrawCallsOf("Level", sm)) = 1
           /\ \A sm \in 0..(Skybox.m_NumSubMeshes - 1) :
                  Cardinality(DrawCallsOf("Skybox", sm)) = 1

(***************************************************************************)
(* C24: after BeginEnumTriangles, GetTriangle returns true once for each   *)
(* triangle of each sub-mesh in order, GetNumTriangles( ) times in all, and *)
(* then false; the same for GetVertex after BeginEnumVertices.  So what    *)
(* has been handed out is always the start of the full list, and all of    *)
(* it once false was returned.                                             *)
(***************************************************************************)
RECURSIVE ElementsFrom(_, _, _, _)
\* The elements of sub-mesh subMesh from index i on, then of the later ones.
ElementsFrom(mesh, field, subMesh, i) ==
    IF subMesh >= mesh.m_NumSubMeshes THEN <<>>
    ELSE IF i >= mesh.m_SubMeshes[subMesh + 1][field]
    THEN ElementsFrom(mesh, field, subMesh + 1, 0)
    ELSE <<<<subMesh, i>>>> \o ElementsFrom(mesh, field, subMesh, i + 1)

IsPrefix(s, t) == Len(s) <= Len(t) /\ SubSeq(t, 1, Len(s)) = s

C24_EnumerationCompleteAndEnds ==
    LET triangles == ElementsFrom(Mesh, "numFaces", 0, 0)
        vertices == ElementsFrom(Mesh, "numVertices", 0, 0)
    IN /\ Len(triangles) = GetNumTriangles(Mesh)
       /\ Len(vertices) = GetNumVertices(Mesh)
       /\ IsPrefix(enumerated.triangles, triangles)
       /\ enumerated.trianglesEnded => enumerated.triangles = triangles
       /\ IsPrefix(enumerated.vertices, vertices)
       /\ enumerated.verticesEnded => enumerated.vertices = vertices

(***************************************************************************)
(* C25: the accumulator is topped up only in loop passes that append a     *)
(* light (the loop runs while accumulator < 0 and count < capacity): the   *)
(* top-ups of an update are as many as the lights it appended, and at      *)
(* capacity an update only subtracts the frame time.                       *)
(***************************************************************************)
C25_TopUpsEqualAppended ==
    frames >= 1
        => /\ lastUpdate.topUps = NumPointLights - lastUpdate.before
           /\ lastUpdate.before = MaxPointLights
                  => emit = RoundF32(lastUpdate.emitBefore - lastUpdate.frameTime)

\* C25 as it holds: the loop runs while accumulator < 0 whatever the count,
\* every pass tops up and a pass appends only below capacity; the lights
\* appended are min(top-ups, capacity - count at entry), and an update tops
\* up exactly when subtracting the frame time made the accumulator negative,
\* at capacity too, leaving it non-negative.
C25_TopUpsWhileNegative ==
    frames >= 1
        => /\ NumPointLights - lastUpdate.before
                  = Min(lastUpdate.topUps, MaxPointLights - lastUpdate.before)
           /\ lastUpdate.topUps > 0
                  <=> RoundF32(lastUpdate.emitBefore - lastUpdate.frameTime) < 0
           /\ emit >= 0

\* An update entered at capacity that tops up.
C25_Witness ==
    /\ frames >= 2
    /\ lastUpdate.before = MaxPointLights
    /\ lastUpdate.topUps > 0
    /\ emit # RoundF32(lastUpdate.emitBefore - lastUpdate.frameTime)

(***************************************************************************)
(* C26: at every RenderScene call the first NumPointLights records of the  *)
(* GPU light buffer equal those of the CPU light array: every UpdateScene  *)
(* copies the live prefix after its spawn and orbit steps and nothing      *)
(* changes the array or the count before the next render.                  *)
(***************************************************************************)
C26_UploadedPrefixIsCurrent ==
    pc = "RenderScene"
        => \A i \in 0..(NumPointLights - 1) : LightVertexBuffer[i] = PointLights[i]

(***************************************************************************)
(* C27: in every UpdateScene call Control runs before UpdateMatrices, and  *)
(* Control changes only the position and rotation.x / rotation.y (not      *)
(* rotation.z, the settings or a cached matrix), so after every update the *)
(* cached matrices are those of the position and rotation that the         *)
(* frame's input produced.                                                 *)
(***************************************************************************)
SettingsOf(cam) == <<cam.m_FOV, cam.m_NearClip, cam.m_FarClip, cam.m_Aspect>>
MatricesOf(cam) ==
    <<cam.m_WorldMatrix, cam.m_ViewMatrix, cam.m_ProjMatrix, cam.m_ViewProjMatrix>>

C27_ControlBeforeUpdateMatrices ==
    [][pc = "UpdateScene" =>
        /\ \E held \in KeySets :
              LET c == Control(MainCamera, lastUpdate'.frameTime, ControlKeys, held)
              IN /\ c.m_Rotation[3] = MainCamera.m_Rotation[3]
                 /\ SettingsOf(c) = SettingsOf(MainCamera)
                 /\ MatricesOf(c) = MatricesOf(MainCamera)
                 /\ MainCamera'.m_Position = c.m_Position
                 /\ MainCamera'.m_Rotation = c.m_Rotation
        /\ SettingsOf(MainCamera') = SettingsOf(MainCamera)
        /\ MainCamera'.m_WorldMatrix =
               ZXYWorld(MainCamera'.m_Position, MainCamera'.m_Rotation)
        /\ MatMul(MainCamera'.m_ViewMatrix, MainCamera'.m_WorldMatrix) = Identity
        /\ MainCamera'.m_ViewProjMatrix =
               MatMul(MainCamera'.m_ViewMatrix, MainCamera'.m_ProjMatrix)
    ]_vars

\* After the second update the camera has been turned and moved by the keys
\* and its world matrix is that of where it is now.
C27_Witness ==
    /\ frames = 2
    /\ pc = "RenderScene"
    /\ MainCamera.m_Rotation \notin {<<0, 1, 0>>}
    /\ MainCamera.m_Position # <<-320, 70, 100>>
    /\ MainCamera.m_WorldMatrix = ZXYWorld(MainCamera.m_Position, MainCamera.m_Rotation)

(***************************************************************************)
(* C28: for updates with non-negative frame times the spawn accumulator    *)
(* satisfies 0 <= accumulator < 1/spawnFrequency at the end of every       *)
(* UpdateScene call, before and after the population reached capacity.     *)
(***************************************************************************)
C28_AccumulatorBelowInterval ==
    frames >= 1 => 0 <= emit /\ emit < SpawnInterval

\* C28 as it holds: the upper bound is not strict, 0 <= accumulator <=
\* 1/spawnFrequency; the accumulator starts at 1/spawnFrequency and an update
\* of frame time 0 leaves it there.
C28_AccumulatorWithinInterval ==
    0 <= emit /\ emit <= SpawnInterval

\* An update has ended with the accumulator at 1/spawnFrequency.
C28_Witness ==
    frames >= 1 /\ pc = "RenderScene" /\ emit = SpawnInterval

(***************************************************************************)
(* C29: the spawn loop of UpdateScene ends for every finite frame time,    *)
(* also when the count is at capacity and the accumulator negative on      *)
(* entry: no update stays in the loop.                                     *)
(***************************************************************************)
C29_SpawnLoopEnds ==
    pc # "SpawnLoop"

\* The part that holds: entered at capacity with a short frame, the loop ends
\* with the accumulator topped up.
C29_ShortFramesEnd ==
    (frames >= 1 /\ ~IsLong(lastUpdate.frameTime) /\ pc = "RenderScene")
        => emit >= 0

(***************************************************************************)
(* C30: with interocular distance 0 the stereo-left and stereo-right       *)
(* results of GetPosition, GetWorldMatrix, GetViewMatrix,                  *)
(* GetProjectionMatrix and GetViewProjectionMatrix equal the Monoscopic    *)
(* result for the same camera state, for any non-zero screen distance.     *)
(***************************************************************************)
C30_ZeroInterocularIsMonoscopic ==
    (lastCall = "Accessors" /\ got.interocular = 0 /\ got.screenDistance # 0)
        => \A m \in EStereoscopic :
              /\ got.position[m] = got.position["Monoscopic"]
              /\ got.world[m] = got.world["Monoscopic"]
              /\ got.view[m] = got.view["Monoscopic"]
              /\ got.proj[m] = got.proj["Monoscopic"]
              /\ got.viewProj[m] = got.viewProj["Monoscopic"]

\* The accessors called with interocular distance 0 right after
\* UpdateMatrices on a camera that has been turned.
C30_Witness ==
    /\ lastCall = "Accessors"
    /\ prevCall = "UpdateMatrices"
    /\ got.interocular = 0
    /\ got.screenDistance # 0
    /\ MainCamera.m_Rotation # <<0, 0, 0>>
    /\ got.viewProj["StereoscopicLeft"] = MainCamera.m_ViewProjMatrix

====
